---- MODULE Spec2Model ----
(***************************************************************************)
(* KatikaNaMe backend: the document-generation pipeline.                   *)
(*                                                                         *)
(*   src/unnamed/part_000   Express + mongoose + pdfkit variant            *)
(*   src/backend/server.js  Express + in-memory arrays + html-pdf variant  *)
(*                                                                         *)
(* Four specifications share the variables; each leaves the variables of   *)
(* the others at their idle values.                                        *)
(*   SpecHex   hexToRgb applied to bounded strings                         *)
(*   SpecPdf   the synchronous page drawing of generate-pdf (part_000)     *)
(*   SpecHtml  generatePortfolioHTML and its three templates (server.js)   *)
(*   SpecGen   concurrent generate-pdf requests, sink and clock (part_000) *)
(***************************************************************************)
EXTENDS Integers, Sequences, FiniteSets, TLC

VARIABLES
  hexIn,        \* SpecHex: the argument of hexToRgb, a sequence of characters
  hexOut,       \* SpecHex: <<the triple hexToRgb returned>>, or <<>> before the call
  pdfIn,        \* SpecPdf: <<the populated portfolio being drawn>>
  pdfDoc,       \* SpecPdf: <<the PDFDocument>>, or <<>> before new PDFDocument
  pdfPc,        \* SpecPdf: the handler's position in the drawing code
  pdfI,         \* SpecPdf: index of the next element of portfolio.sections.forEach
  htmlIn,       \* SpecHtml: <<[data, template, customizations]>>, the arguments
  htmlOut,      \* SpecHtml: <<the document generatePortfolioHTML returned>>, or <<>>
  now,          \* SpecGen: Date.now(), in milliseconds
  serverUp,     \* SpecGen: the Node process is running
  reqPc,        \* SpecGen: each generate-pdf request's position in the handler
  reqId,        \* SpecGen: each request's req.params.id
  reqFile,      \* SpecGen: each request's filename, <<>> before it is computed
  reqResp,      \* SpecGen: the response each request received (status 0: none yet)
  docLeft,      \* SpecGen: chunks of each request's PDFDocument not yet read by the pipe
  sink,         \* SpecGen: each request's fs.WriteStream
  disk,         \* SpecGen: size of each file of uploads/portfolios (absent: -1)
  dbFiles,      \* SpecGen: the stored portfolio's generatedFiles
  artists,      \* SpecStore: the in-memory array artists
  portfolios,   \* SpecStore: the in-memory array portfolios
  artistsFile,  \* SpecStore: <<the array in data/artists.json>>, or <<>> without the file
  portfoliosFile, \* SpecStore: <<the array in data/portfolios.json>>, or <<>>
  htmlFiles,    \* SpecStore: ids of the portfolios with a file in generated/portfolios
  loadPc,       \* SpecStore: position of loadInitialData
  loadBuf,      \* SpecStore: what readJson has read and not yet returned
  pendingA,     \* SpecStore: POST /api/artists requests awaiting writeJson
  pendingP,     \* SpecStore: POST /api/portfolios requests awaiting a write
  nextArtist,   \* SpecStore: number of the next artist id (uuidv4 never repeats)
  nextPortfolio, \* SpecStore: number of the next portfolio id
  answeredA,    \* SpecStore: status answered to the creation of each artist id (0: none)
  answeredP,    \* SpecStore: status answered to the creation of each portfolio id
  lastResp,     \* SpecStore: the last response of a handler that awaits nothing
  views,        \* SpecViews: the views field of the stored artist document
  fetch         \* SpecViews: each GET /api/artists/:id request: position, id, loaded
                \* document, response status

hexVars == <<hexIn, hexOut>>
pdfVars == <<pdfIn, pdfDoc, pdfPc, pdfI>>
htmlVars == <<htmlIn, htmlOut>>
genVars == <<now, serverUp, reqPc, reqId, reqFile, reqResp, docLeft, sink, disk, dbFiles>>
storeVars == <<artists, portfolios, artistsFile, portfoliosFile, htmlFiles, loadPc, loadBuf,
               pendingA, pendingP, nextArtist, nextPortfolio, answeredA, answeredP, lastResp>>
viewVars == <<views, fetch>>
vars == <<hexIn, hexOut, pdfIn, pdfDoc, pdfPc, pdfI, htmlIn, htmlOut,
          now, serverUp, reqPc, reqId, reqFile, reqResp, docLeft, sink, disk, dbFiles,
          artists, portfolios, artistsFile, portfoliosFile, htmlFiles, loadPc, loadBuf,
          pendingA, pendingP, nextArtist, nextPortfolio, answeredA, answeredP, lastResp,
          views, fetch>>

(***************************************************************************)
(* JavaScript values.  A string is a sequence of one-character strings     *)
(* where the code looks inside it (split, trim, regex, toUpperCase), and   *)
(* an atomic TLA+ string where the code only tests and interpolates it.    *)
(***************************************************************************)
Undefined == "<undefined>"
UndefinedS == <<Undefined>>      \* undefined, where a character sequence is expected

\* ToBoolean of a string-or-undefined value
Truthy(v) == v # Undefined /\ v # ""
TruthyS(v) == v # UndefinedS /\ v # <<>>

RECURSIVE IndexOf(_, _, _)
IndexOf(seq, x, i) ==
  IF i > Len(seq) THEN 0
  ELSE IF seq[i] = x THEN i
  ELSE IndexOf(seq, x, i + 1)

Lowers == <<"a","b","c","d","e","f","g","h","i","j","k","l","m",
            "n","o","p","q","r","s","t","u","v","w","x","y","z">>
Uppers == <<"A","B","C","D","E","F","G","H","I","J","K","L","M",
            "N","O","P","Q","R","S","T","U","V","W","X","Y","Z">>
Digits == <<"0","1","2","3","4","5","6","7","8","9">>

\* String.prototype.toUpperCase / toLowerCase on one character
UpperChar(c) ==
  LET i == IndexOf(Lowers, c, 1) IN IF i > 0 THEN Uppers[i] ELSE c
LowerChar(c) ==
  LET i == IndexOf(Uppers, c, 1) IN IF i > 0 THEN Lowers[i] ELSE c

(***************************************************************************)
(* hexToRgb (part_000:381-388)                                             *)
(*   /^#?([a-f\d]{2})([a-f\d]{2})([a-f\d]{2})$/i.exec(hex)                  *)
(***************************************************************************)
\* the character class [a-f\d]
HexClass == {"a","b","c","d","e","f"} \cup {Digits[i] : i \in 1..Len(Digits)}

\* one character against the class; under the i flag both sides are
\* canonicalized (upper-cased) before they are compared
HexClassCanonical == {UpperChar(k) : k \in HexClass}
ClassMatches(c, ignoreCase) ==
  IF ignoreCase THEN UpperChar(c) \in HexClassCanonical
  ELSE c \in HexClass

\* the regex: an optional '#', then exactly six class characters, anchored
\* at both ends.  The result is the sequence of the six matched characters
\* (the three groups, two characters each) or <<>> when there is no match.
RegexExec(hex, ignoreCase) ==
  LET str == IF hex = UndefinedS THEN <<"u","n","d","e","f","i","n","e","d">> ELSE hex
      hashed == Len(str) > 0 /\ str[1] = "#"
      body == IF hashed THEN Tail(str) ELSE str
  IN IF Len(body) = 6 /\ \A i \in 1..6 : ClassMatches(body[i], ignoreCase)
     THEN body ELSE <<>>

\* parseInt(s, 16) on a two-character group the regex accepted
DigitValue(c) ==
  LET d == IndexOf(Digits, c, 1)
      l == IndexOf(Lowers, LowerChar(c), 1)
  IN IF d > 0 THEN d - 1 ELSE 9 + l
ParseInt16(c1, c2) == DigitValue(c1) * 16 + DigitValue(c2)

FallbackRgb == [r |-> 176, g |-> 38, b |-> 255]

hexToRgbCaseSensitive(hex) ==
  LET result == RegexExec(hex, FALSE)
  IN IF result # <<>>
     THEN [r |-> ParseInt16(result[1], result[2]),
           g |-> ParseInt16(result[3], result[4]),
           b |-> ParseInt16(result[5], result[6])]
     ELSE FallbackRgb

hexToRgb(hex) ==
  LET result == RegexExec(hex, TRUE)
  IN IF result # <<>>
     THEN [r |-> ParseInt16(result[1], result[2]),
           g |-> ParseInt16(result[3], result[4]),
           b |-> ParseInt16(result[5], result[6])]
     ELSE FallbackRgb

(***************************************************************************)
(* The PDFDocument (pdfkit) as the handler uses it: a list of pages, each  *)
(* the list of what was drawn on it, the current font size and fill        *)
(* colour, and the number of addPage calls.  Lengths are in hundredths of  *)
(* a point, so that the A4 page width 595.28 is an integer.                *)
(***************************************************************************)
PageWidth == 59528
PageHeight == 84189
Pt(n) == n * 100

Rgb(c) == <<"rgb", c.r, c.g, c.b>>
Css(name) == <<"css", name>>

\* new PDFDocument({margin: 50, size: 'A4', ...}): the first page exists
NewDocument ==
  [pages |-> << <<>> >>, fontSize |-> 12, fillColor |-> Css("black"), addPageCalls |-> 0]

addPage(d) ==
  [d EXCEPT !.pages = Append(@, <<>>), !.addPageCalls = @ + 1]

Draw(d, op) == [d EXCEPT !.pages[Len(d.pages)] = Append(@, op)]

\* doc.rect(x, y, w, h).fill(color)
rectFill(d, x, y, w, h, color) ==
  Draw([d EXCEPT !.fillColor = color],
       [op |-> "rect", x |-> x, y |-> y, w |-> w, h |-> h, fill |-> color])

fontSize(d, n) == [d EXCEPT !.fontSize = n]
fillColor(d, color) == [d EXCEPT !.fillColor = color]

\* doc.text(str, x, y, options); FlowY stands for the document's own cursor doc.y
FlowY == 0 - 1
text(d, str, x, y, align) ==
  Draw(d, [op |-> "text", str |-> str, x |-> x, y |-> y, size |-> d.fontSize,
           fill |-> d.fillColor, align |-> align])

\* doc.widthOfString(str) at the current font size.  A string is known to
\* the layout only by the sum of its glyph advances, in 1/1000 em.
widthOfString(d, advance) == (advance * d.fontSize) \div 10

\* String.prototype.toUpperCase
ToUpperCase(str) == [i \in 1..Len(str) |-> UpperChar(str[i])]

\* String.prototype.replace(from, to) with one-character strings: the first
\* occurrence only
ReplaceFirst(str, from, to) ==
  LET i == IndexOf(str, from, 1)
  IN IF i = 0 THEN str ELSE [str EXCEPT ![i] = to]

\* the header band at the top of every content page
HeaderBand(d, label, accentRgb) ==
  LET d1 == rectFill(d, Pt(50), Pt(50), PageWidth - Pt(100), Pt(40), Rgb(accentRgb))
      d2 == fillColor(fontSize(d1, 18), Css("white"))
  IN text(d2, label, Pt(60), Pt(65), "left")

DefaultPdfColors == [primary |-> <<"#","B","0","2","6","F","F">>,
                     accent |-> <<"#","F","F","D","2","3","F">>]

\* part_000:398-431
CoverPage(d, portfolio, primaryRgb, accentRgb) ==
  LET artist == portfolio.artist
      d1 == rectFill(d, 0, 0, PageWidth, Pt(200), Rgb(primaryRgb))
      d2 == text(fillColor(fontSize(d1, 32), Css("white")), artist.name, Pt(50), Pt(80), "center")
      category == IF artist.category = UndefinedS THEN UndefinedS
                  ELSE ToUpperCase(ReplaceFirst(artist.category, "_", " "))
      d3 == text(fontSize(d2, 18),
                 IF TruthyS(category) THEN category
                 ELSE <<"C","R","E","A","T","I","V","E"," ","P","R","O","F","E","S","S","I","O","N","A","L">>,
                 Pt(50), Pt(120), "center")
      level == (IF artist.experience = UndefinedS THEN <<"u","n","d","e","f","i","n","e","d">>
                ELSE ToUpperCase(artist.experience)) \o <<" ","L","E","V","E","L">>
      d4 == text(fontSize(d3, 14), level, Pt(50), Pt(145), "center")
      d5 == rectFill(d4, Pt(50), Pt(180), PageWidth - Pt(100), Pt(3), Rgb(accentRgb))
      d6 == text(fillColor(fontSize(d5, 24), Rgb(primaryRgb)), portfolio.title, Pt(50), Pt(220), "left")
  IN IF Truthy(portfolio.description)
     THEN text(fillColor(fontSize(d6, 12), Css("#333333")), portfolio.description,
               Pt(50), FlowY, "justify")
     ELSE d6

\* part_000:433-450
AboutPage(d, portfolio, accentRgb) ==
  IF Truthy(portfolio.artist.bio)
  THEN LET d1 == HeaderBand(addPage(d), "ABOUT THE ARTIST", accentRgb)
       IN text(fillColor(fontSize(d1, 12), Css("#333333")), portfolio.artist.bio,
               Pt(50), Pt(110), "justify")
  ELSE d

\* a variant that gives a section without content no page
SectionPageSkipEmpty(d, section, accentRgb) ==
  LET label == ToUpperCase(IF TruthyS(section.title) THEN section.title ELSE section.type)
      d1 == HeaderBand(addPage(d), label, accentRgb)
  IN IF Truthy(section.content)
     THEN text(fillColor(fontSize(d1, 12), Css("#333333")), section.content,
               Pt(50), Pt(110), "justify")
     ELSE d

\* part_000:453-471, one iteration of portfolio.sections.forEach
SectionPage(d, section, accentRgb) ==
  LET label == ToUpperCase(IF TruthyS(section.title) THEN section.title ELSE section.type)
      d1 == HeaderBand(addPage(d), label, accentRgb)
  IN IF Truthy(section.content)
     THEN text(fillColor(fontSize(d1, 12), Css("#333333")), section.content,
               Pt(50), Pt(110), "justify")
     ELSE d1

\* part_000:487-503, one iteration of portfolio.artist.genres.forEach;
\* st = [doc, skillX, skillY]
RowHeight == 35
ChipGap == 10
ChipPadding == 20

SkillChipNoReset(st, genre, primaryRgb) ==
  LET skillWidth == widthOfString(st.doc, genre) + Pt(ChipPadding)
      wrap == st.skillX + skillWidth > PageWidth - Pt(50)
      skillX == st.skillX
      skillY == IF wrap THEN st.skillY + Pt(RowHeight) ELSE st.skillY
      d1 == rectFill(st.doc, skillX, skillY, skillWidth, Pt(25), Rgb(primaryRgb))
      d2 == text(fillColor(fontSize(d1, 10), Css("white")), genre,
                 skillX + Pt(10), skillY + Pt(8), "left")
  IN [doc |-> d2, skillX |-> skillX + skillWidth + Pt(ChipGap), skillY |-> skillY]

SkillChip(st, genre, primaryRgb) ==
  LET skillWidth == widthOfString(st.doc, genre) + Pt(ChipPadding)
      wrap == st.skillX + skillWidth > PageWidth - Pt(50)
      skillX == IF wrap THEN Pt(50) ELSE st.skillX
      skillY == IF wrap THEN st.skillY + Pt(RowHeight) ELSE st.skillY
      d1 == rectFill(st.doc, skillX, skillY, skillWidth, Pt(25), Rgb(primaryRgb))
      d2 == text(fillColor(fontSize(d1, 10), Css("white")), genre,
                 skillX + Pt(10), skillY + Pt(8), "left")
  IN [doc |-> d2, skillX |-> skillX + skillWidth + Pt(ChipGap), skillY |-> skillY]

RECURSIVE SkillChips(_, _, _, _)
SkillChips(st, genres, i, primaryRgb) ==
  IF i > Len(genres) THEN st
  ELSE SkillChips(SkillChip(st, genres[i], primaryRgb), genres, i + 1, primaryRgb)

\* part_000:473-504
SkillsPageAlways(d, portfolio, primaryRgb, accentRgb) ==
  LET d1 == HeaderBand(addPage(d), "SKILLS & SPECIALTIES", accentRgb)
  IN SkillChips([doc |-> d1, skillX |-> Pt(50), skillY |-> Pt(120)],
                portfolio.artist.genres, 1, primaryRgb).doc

SkillsPage(d, portfolio, primaryRgb, accentRgb) ==
  IF Len(portfolio.artist.genres) > 0
  THEN LET d1 == HeaderBand(addPage(d), "SKILLS & SPECIALTIES", accentRgb)
       IN SkillChips([doc |-> d1, skillX |-> Pt(50), skillY |-> Pt(120)],
                     portfolio.artist.genres, 1, primaryRgb).doc
  ELSE d

\* [city, country].filter(Boolean).join(', ')
JoinLocation(location) ==
  LET parts == SelectSeq(<<location.city, location.country>>, Truthy)
  IN IF Len(parts) = 2 THEN <<parts[1], ", ", parts[2]>> ELSE parts

\* platform.charAt(0).toUpperCase() + platform.slice(1)
Capitalize(str) ==
  IF Len(str) = 0 THEN str ELSE <<UpperChar(str[1])>> \o Tail(str)

\* a variant that leaves contactY where it is after a social line
SocialLineNoAdvance(st, entry) ==
  IF Truthy(entry.url)
  THEN [doc |-> text(fillColor(fontSize(st.doc, 12), Css("#0066cc")),
                     Capitalize(entry.platform) \o <<":", " ", entry.url>>,
                     Pt(50), st.contactY, "left"),
        contactY |-> st.contactY]
  ELSE st

\* part_000:552-559, one iteration of Object.entries(socialLinks).forEach;
\* st = [doc, contactY]
SocialLine(st, entry) ==
  IF Truthy(entry.url)
  THEN [doc |-> text(fillColor(fontSize(st.doc, 12), Css("#0066cc")),
                     Capitalize(entry.platform) \o <<":", " ", entry.url>>,
                     Pt(50), st.contactY, "left"),
        contactY |-> st.contactY + Pt(20)]
  ELSE st

RECURSIVE SocialLines(_, _, _)
SocialLines(st, entries, i) ==
  IF i > Len(entries) THEN st
  ELSE SocialLines(SocialLine(st, entries[i]), entries, i + 1)

\* part_000:506-570
ContactPage(d, portfolio, primaryRgb, accentRgb) ==
  LET artist == portfolio.artist
      d1 == HeaderBand(addPage(d), "CONTACT INFORMATION", accentRgb)
      y0 == Pt(120)
      d2 == text(fillColor(fontSize(d1, 14), Rgb(primaryRgb)), "Email:", Pt(50), y0, "left")
      d3 == text(fillColor(fontSize(d2, 12), Css("#333333")), artist.email, Pt(50), y0 + Pt(20), "left")
      y1 == y0 + Pt(50)
      hasLocation == Truthy(artist.location.city) \/ Truthy(artist.location.country)
      d4 == IF hasLocation
            THEN text(fillColor(fontSize(d3, 14), Rgb(primaryRgb)), "Location:", Pt(50), y1, "left")
            ELSE d3
      d5 == IF hasLocation
            THEN text(fillColor(fontSize(d4, 12), Css("#333333")), JoinLocation(artist.location),
                      Pt(50), y1 + Pt(20), "left")
            ELSE d4
      y2 == IF hasLocation THEN y1 + Pt(50) ELSE y1
      st == IF artist.socialLinks.defined
            THEN SocialLines(
                   [doc |-> text(fillColor(fontSize(d5, 14), Rgb(primaryRgb)),
                                 "Connect Online:", Pt(50), y2, "left"),
                    contactY |-> y2 + Pt(25)],
                   artist.socialLinks.entries, 1)
            ELSE [doc |-> d5, contactY |-> y2]
  IN text(fillColor(fontSize(st.doc, 8), Css("#666666")), "Generated by KatikaNaMe Platform",
          Pt(50), PageHeight - Pt(30), "center")

\* part_000:390-396
PdfColors(portfolio) ==
  IF portfolio.customizations.hasColors
  THEN portfolio.customizations.colors ELSE DefaultPdfColors
PrimaryRgb(portfolio) == hexToRgb(PdfColors(portfolio).primary)
AccentRgb(portfolio) == hexToRgb(PdfColors(portfolio).accent)

(***************************************************************************)
(* generatePortfolioHTML and its templates (server.js:75-382).  The        *)
(* document is the sequence of its elements, in document order; the        *)
(* static styling is left out, every element that carries an interpolated  *)
(* value or depends on a condition is kept.                                *)
(***************************************************************************)
\* `${v}` in a template literal
Interp(v) == IF v = Undefined THEN "undefined" ELSE v
\* v || d
OrElse(v, d) == IF Truthy(v) THEN v ELSE d

El(tag) == [el |-> tag]
Txt(tag, str) == [el |-> tag, txt |-> str]
Parts(tag, parts) == [el |-> tag, parts |-> parts]
Link(href, icon) == [el |-> "a", href |-> href, icon |-> icon]
Chip(skill) == [el |-> "span.skill", chars |-> skill]

\* String.prototype.trim
IsSpace(c) == c = " "
RECURSIVE TrimStart(_)
TrimStart(str) ==
  IF str # <<>> /\ IsSpace(Head(str)) THEN TrimStart(Tail(str)) ELSE str
RECURSIVE TrimEnd(_)
TrimEnd(str) ==
  IF str # <<>> /\ IsSpace(str[Len(str)]) THEN TrimEnd(SubSeq(str, 1, Len(str) - 1)) ELSE str
Trim(str) == TrimEnd(TrimStart(str))

\* String.prototype.split(','): the pieces between the commas; the empty
\* string gives one empty piece
RECURSIVE Split(_, _)
Split(str, sep) ==
  LET i == IndexOf(str, sep, 1)
  IN IF i = 0 THEN <<str>>
     ELSE <<SubSeq(str, 1, i - 1)>> \o Split(SubSeq(str, i + 1, Len(str)), sep)

\* server.js:76
\*   Array.isArray(data.skills) ? data.skills
\*                              : (data.skills || '').split(',').map(s => s.trim())
SkillsListOf(skills) ==
  IF skills.kind = "array" THEN skills.items
  ELSE LET str == IF skills.kind = "string" THEN skills.chars ELSE <<>>
           pieces == Split(str, ",")
       IN [i \in 1..Len(pieces) |-> Trim(pieces[i])]

\* server.js:79-83
DefaultHtmlColors ==
  [primary |-> "#B026FF", accent |-> "#FFD23F", background |-> "#0a0a12"]
HtmlColors(customizations) ==
  IF customizations.hasColors THEN customizations.colors ELSE DefaultHtmlColors

\* ${cond ? `<section><h2>heading</h2><div class="section-content">..</div></section>` : ''}
OptionalSection(value, heading) ==
  IF Truthy(value)
  THEN <<El("section"), Txt("h2", heading), Txt("div.section-content", Interp(value)), El("/section")>>
  ELSE <<>>

\* ${data.x ? `<a href="${data.x}" target="_blank"><i class="fab fa-x"></i></a>` : ''}
OptionalLink(url, icon) == IF Truthy(url) THEN <<Link(Interp(url), icon)>> ELSE <<>>

\* ${data.phone ? `<p>Phone: ${data.phone}</p>` : ''}
OptionalPhone(phone) ==
  IF Truthy(phone) THEN <<Parts("p", <<"Phone:", Interp(phone)>>)>> ELSE <<>>

SkillChipsHtml(skillsList) == [i \in 1..Len(skillsList) |-> Chip(skillsList[i])]

EmailLine(data) == Parts("p", <<"Email:", Interp(data.email)>>)
Footer(data, rights) == <<El("footer"), Parts("p", <<"(c)", "<year>", Interp(data.name), rights>>)>>

\* server.js:170-235
generateModernTemplate(data, skillsList, colors) ==
  << El("header"), Txt("img.alt", Interp(data.name)), Txt("h1", Interp(data.name)),
     Txt("h3", Interp(data.title)),
     Parts("p", <<Interp(data.experience), OrElse(data.location, "Creative Professional")>>),
     El("/header"), El("main"),
     El("section"), Txt("h2", "About Me"), Txt("div.section-content", Interp(data.aboutMe)),
     El("/section") >>
  \o OptionalSection(data.jobs, "Experience")
  \o << El("section"), Txt("h2", "Skills"), El("div.skills") >>
  \o SkillChipsHtml(skillsList)
  \o << El("/div.skills"), El("/section") >>
  \o OptionalSection(data.services, "Services")
  \o OptionalSection(data.testimonials, "Testimonials")
  \o << El("section"), Txt("h2", "Connect With Me"), El("div.social-links") >>
  \o OptionalLink(data.instagram, "fab fa-instagram")
  \o OptionalLink(data.youtube, "fab fa-youtube")
  \o OptionalLink(data.tiktok, "fab fa-tiktok")
  \o OptionalLink(data.facebook, "fab fa-facebook")
  \o OptionalLink(data.twitter, "fab fa-twitter")
  \o OptionalLink(data.website, "fas fa-globe")
  \o << El("/div.social-links"), EmailLine(data) >>
  \o OptionalPhone(data.phone)
  \o << El("/section"), El("/main") >>
  \o Footer(data, "All rights reserved.")

\* server.js:237-311
generateClassicTemplate(data, skillsList, colors) ==
  << El("header"), Txt("img.alt", Interp(data.name)), Txt("h1", Interp(data.name)),
     Txt("h3", Interp(data.title)), Parts("p", <<OrElse(data.location, "")>>),
     El("/header"), El("main"),
     El("section"), Txt("h2", "About Me"), Txt("div.section-content", Interp(data.aboutMe)),
     El("/section") >>
  \o OptionalSection(data.jobs, "Experience")
  \o OptionalSection(data.services, "Services")
  \o << El("section"), Txt("h2", "Contact"), EmailLine(data) >>
  \o OptionalPhone(data.phone)
  \o << Txt("h3", "Social Links"), El("div.social-links") >>
  \o OptionalLink(data.instagram, "fab fa-instagram")
  \o OptionalLink(data.youtube, "fab fa-youtube")
  \o OptionalLink(data.tiktok, "fab fa-tiktok")
  \o << El("/div.social-links"), El("/section"),
        El("section"), Txt("h2", "Skills"), El("div.skills") >>
  \o SkillChipsHtml(skillsList)
  \o << El("/div.skills"), El("/section") >>
  \o OptionalSection(data.testimonials, "Testimonials")
  \o << El("/main") >>
  \o Footer(data, "All rights reserved.")

\* server.js:313-382
generateArtisticTemplate(data, skillsList, colors) ==
  << Parts("header.style", <<Interp(colors.primary), Interp(colors.accent)>>),
     Txt("img.alt", Interp(data.name)), Txt("img.border", Interp(colors.accent)),
     Txt("h1", Interp(data.name)), Txt("h3", Interp(data.title)),
     Parts("p", <<Interp(data.experience), "Artist", OrElse(data.location, "Creative Visionary")>>),
     El("/header"), El("main"),
     El("section"), Txt("h2", "My Artistic Journey"),
     Txt("div.section-content", Interp(data.aboutMe)), El("/section") >>
  \o OptionalSection(data.jobs, "Performance History")
  \o << El("section"), Txt("h2", "Artistic Skills"), El("div.skills") >>
  \o SkillChipsHtml(skillsList)
  \o << El("/div.skills"), El("/section") >>
  \o OptionalSection(data.testimonials, "Voices of Appreciation")
  \o << El("section"), Txt("h2", "Let's Create Together"), El("div.social-links") >>
  \o OptionalLink(data.instagram, "fab fa-instagram")
  \o OptionalLink(data.youtube, "fab fa-youtube")
  \o OptionalLink(data.tiktok, "fab fa-tiktok")
  \o << El("/div.social-links"), EmailLine(data) >>
  \o OptionalPhone(data.phone)
  \o << El("/section"), El("/main") >>
  \o Footer(data, "All artistic rights reserved.")

\* server.js:87-99: switch(template), with a default branch
TemplateStrategyDefaultClassic(template) ==
  CASE template = "modern" -> "modern"
    [] template = "classic" -> "classic"
    [] template = "artistic" -> "artistic"
    [] OTHER -> "classic"
TemplateStrategy(template) ==
  CASE template = "modern" -> "modern"
    [] template = "classic" -> "classic"
    [] template = "artistic" -> "artistic"
    [] OTHER -> "modern"

\* server.js:75-168
generatePortfolioHTML(data, template, customizations) ==
  LET skillsList == SkillsListOf(data.skills)
      colors == HtmlColors(customizations)
      strategy == TemplateStrategy(template)
      html == CASE strategy = "modern" -> generateModernTemplate(data, skillsList, colors)
                [] strategy = "classic" -> generateClassicTemplate(data, skillsList, colors)
                [] strategy = "artistic" -> generateArtisticTemplate(data, skillsList, colors)
  IN << Parts("title", <<Interp(data.name), Interp(data.title)>>),
        Txt("--primary", Interp(colors.primary)),
        Txt("--accent", Interp(colors.accent)),
        Txt("--background", Interp(colors.background)),
        El("body") >>
     \o html
     \o << El("/body") >>

(***************************************************************************)
(* POST /api/portfolios/:id/generate-pdf (part_000:350-603) as concurrent  *)
(* requests.  A request runs from one await or event to the next in one    *)
(* step: findById, then the synchronous drawing up to doc.end(), then the  *)
(* document's 'end' event, then portfolio.save(), then the response.  The  *)
(* pipe and the write stream run between those steps.  The rate limiter    *)
(* (10 requests a minute) admits every request at these bounds.            *)
(***************************************************************************)
NumReqs == 2
MaxClock == 1
DocChunks == 1

Reqs == 1..NumReqs
StoredId == "p1"
MissingId == "p0"
NoFile == <<>>

\* part_000:364: `portfolio-${portfolio._id}-${Date.now()}.pdf`
filename(id, time) == <<"portfolio", id, time>>

FileNames == {filename(StoredId, t) : t \in 0..MaxClock}
Absent == 0 - 1

\* part_000:577-586: the entry pushed to portfolio.generatedFiles and
\* portfolio.save(): each request has its own document, and save sends the
\* pushed entry as an atomic push onto the stored array
Url(name) == <<"/uploads/portfolios", name>>
GeneratedFile(r, name) == [format |-> "pdf", filename |-> name, url |-> Url(name), id |-> r]
pushAndSaveOverwriting(stored, entry) == <<entry>>
pushAndSave(stored, entry) == Append(stored, entry)

ClosedSink == [state |-> "none", buffered |-> 0, written |-> 0, ended |-> FALSE]
NoResponse == [status |-> 0, filename |-> NoFile, downloadUrl |-> NoFile, fileSize |-> 0]

HexIdle == hexIn = <<>> /\ hexOut = <<>>
PdfIdle == pdfIn = <<>> /\ pdfDoc = <<>> /\ pdfPc = "idle" /\ pdfI = 0
HtmlIdle == htmlIn = <<>> /\ htmlOut = <<>>
StoreIdle ==
  /\ artists = <<>> /\ portfolios = <<>> /\ artistsFile = <<>> /\ portfoliosFile = <<>>
  /\ htmlFiles = {} /\ loadPc = "idle" /\ loadBuf = <<>>
  /\ pendingA = {} /\ pendingP = {} /\ nextArtist = 0 /\ nextPortfolio = 0
  /\ answeredA = <<>> /\ answeredP = <<>> /\ lastResp = <<>>
ViewIdle == views = 0 /\ fetch = <<>>
GenIdle ==
  /\ now = 0 /\ serverUp = FALSE
  /\ reqPc = <<>> /\ reqId = <<>> /\ reqFile = <<>> /\ reqResp = <<>>
  /\ docLeft = <<>> /\ sink = <<>> /\ disk = <<>> /\ dbFiles = <<>>

InitGen ==
  /\ HexIdle /\ PdfIdle /\ HtmlIdle /\ StoreIdle /\ ViewIdle
  /\ now = 0 /\ serverUp = TRUE
  /\ reqPc = [r \in Reqs |-> "idle"]
  /\ reqId = [r \in Reqs |-> StoredId]
  /\ reqFile = [r \in Reqs |-> NoFile]
  /\ reqResp = [r \in Reqs |-> NoResponse]
  /\ docLeft = [r \in Reqs |-> 0]
  /\ sink = [r \in Reqs |-> ClosedSink]
  /\ disk = [f \in FileNames |-> Absent]
  /\ dbFiles = <<>>

Others == <<hexVars, pdfVars, htmlVars, storeVars, viewVars>>

\* the clock advances
Tick ==
  /\ serverUp /\ now < MaxClock
  /\ now' = now + 1
  /\ UNCHANGED <<serverUp, reqPc, reqId, reqFile, reqResp, docLeft, sink, disk, dbFiles, Others>>

\* part_000:350-352: the request arrives and awaits Portfolio.findById
ReceiveRequest(r) ==
  /\ serverUp /\ reqPc[r] = "idle"
  /\ \E id \in {StoredId, MissingId} : reqId' = [reqId EXCEPT ![r] = id]
  /\ reqPc' = [reqPc EXCEPT ![r] = "finding"]
  /\ UNCHANGED <<now, serverUp, reqFile, reqResp, docLeft, sink, disk, dbFiles, Others>>

\* part_000:354-356
RespondNotFound(r) ==
  /\ serverUp /\ reqPc[r] = "finding" /\ reqId[r] = MissingId
  /\ reqResp' = [reqResp EXCEPT ![r] = [NoResponse EXCEPT !.status = 404]]
  /\ reqPc' = [reqPc EXCEPT ![r] = "done"]
  /\ UNCHANGED <<now, serverUp, reqId, reqFile, docLeft, sink, disk, dbFiles, Others>>

\* part_000:599-602: findById rejects
FindFails(r) ==
  /\ serverUp /\ reqPc[r] = "finding"
  /\ reqResp' = [reqResp EXCEPT ![r] = [NoResponse EXCEPT !.status = 500]]
  /\ reqPc' = [reqPc EXCEPT ![r] = "done"]
  /\ UNCHANGED <<now, serverUp, reqId, reqFile, docLeft, sink, disk, dbFiles, Others>>

\* part_000:358-572 and 575: the filename, createWriteStream, doc.pipe, the
\* drawing, doc.end() and the registration of the 'end' listener
StartGeneration(r) ==
  /\ serverUp /\ reqPc[r] = "finding" /\ reqId[r] = StoredId
  /\ reqFile' = [reqFile EXCEPT ![r] = filename(reqId[r], now)]
  /\ sink' = [sink EXCEPT ![r] = [ClosedSink EXCEPT !.state = "opening"]]
  /\ docLeft' = [docLeft EXCEPT ![r] = DocChunks]
  /\ reqPc' = [reqPc EXCEPT ![r] = "streaming"]
  /\ UNCHANGED <<now, serverUp, reqId, reqResp, disk, dbFiles, Others>>

\* fs.createWriteStream(filepath): the file is opened with flags 'w'
SinkOpen(r) ==
  /\ serverUp /\ sink[r].state = "opening"
  /\ sink' = [sink EXCEPT ![r].state = "open"]
  /\ disk' = [disk EXCEPT ![reqFile[r]] = 0]
  /\ UNCHANGED <<now, serverUp, reqPc, reqId, reqFile, reqResp, docLeft, dbFiles, Others>>

\* part_000:378: the pipe reads a chunk of the document and writes it to the stream
PipeChunk(r) ==
  /\ serverUp /\ reqPc[r] = "streaming" /\ docLeft[r] > 0
  /\ docLeft' = [docLeft EXCEPT ![r] = @ - 1]
  /\ sink' = [sink EXCEPT ![r].buffered = @ + 1]
  /\ UNCHANGED <<now, serverUp, reqPc, reqId, reqFile, reqResp, disk, dbFiles, Others>>

\* the write stream writes a buffered chunk to the file
SinkWrite(r) ==
  /\ serverUp /\ sink[r].state = "open" /\ sink[r].buffered > 0
  /\ sink' = [sink EXCEPT ![r].buffered = @ - 1, ![r].written = @ + 1]
  /\ disk' = [disk EXCEPT ![reqFile[r]] =
                IF @ > sink[r].written + 1 THEN @ ELSE sink[r].written + 1]
  /\ UNCHANGED <<now, serverUp, reqPc, reqId, reqFile, reqResp, docLeft, dbFiles, Others>>

\* the write stream emits 'finish': ended by the pipe and nothing left to write
SinkFinish(r) ==
  /\ serverUp /\ sink[r].state = "open" /\ sink[r].ended /\ sink[r].buffered = 0
  /\ sink' = [sink EXCEPT ![r].state = "finished"]
  /\ UNCHANGED <<now, serverUp, reqPc, reqId, reqFile, reqResp, docLeft, disk, dbFiles, Others>>

\* part_000:378: the write stream emits 'error' (the open or a write failed).
\* No 'error' listener is attached, so the event is thrown as an uncaught
\* exception and the process exits: no request in flight is ever answered.
SinkError(r) ==
  /\ serverUp /\ sink[r].state \in {"opening", "open"}
  /\ sink' = [sink EXCEPT ![r].state = "errored"]
  /\ serverUp' = FALSE
  /\ reqPc' = [q \in Reqs |-> IF reqPc[q] \in {"finding", "streaming", "saving"}
                              THEN "dropped" ELSE reqPc[q]]
  /\ UNCHANGED <<now, reqId, reqFile, reqResp, docLeft, disk, dbFiles, Others>>

\* part_000:575-586: the document emits 'end' once the pipe has read all of
\* it: the pipe ends the write stream, and the listener pushes the entry
\* and awaits portfolio.save()
DocEnd(r) ==
  /\ serverUp /\ reqPc[r] = "streaming" /\ docLeft[r] = 0
  /\ sink' = [sink EXCEPT ![r].ended = TRUE]
  /\ reqPc' = [reqPc EXCEPT ![r] = "saving"]
  /\ UNCHANGED <<now, serverUp, reqId, reqFile, reqResp, docLeft, disk, dbFiles, Others>>

\* part_000:586-596: save resolved (the pushed entry is stored); the
\* response carries fs.statSync(filepath).size, which throws when the file
\* does not exist
SaveDone(r) ==
  /\ serverUp /\ reqPc[r] = "saving"
  /\ dbFiles' = pushAndSave(dbFiles, GeneratedFile(r, reqFile[r]))
  /\ reqResp' = [reqResp EXCEPT ![r] =
                   IF disk[reqFile[r]] = Absent
                   THEN [NoResponse EXCEPT !.status = 500]
                   ELSE [status |-> 200, filename |-> reqFile[r],
                         downloadUrl |-> Url(reqFile[r]),
                         fileSize |-> disk[reqFile[r]]]]
  /\ reqPc' = [reqPc EXCEPT ![r] = "done"]
  /\ UNCHANGED <<now, serverUp, reqId, reqFile, docLeft, sink, disk, Others>>

\* part_000:594-596: save rejected
SaveFails(r) ==
  /\ serverUp /\ reqPc[r] = "saving"
  /\ reqResp' = [reqResp EXCEPT ![r] = [NoResponse EXCEPT !.status = 500]]
  /\ reqPc' = [reqPc EXCEPT ![r] = "done"]
  /\ UNCHANGED <<now, serverUp, reqId, reqFile, docLeft, sink, disk, dbFiles, Others>>

NextGen ==
  \/ Tick
  \/ \E r \in Reqs :
       \/ ReceiveRequest(r) \/ RespondNotFound(r) \/ FindFails(r)
       \/ StartGeneration(r) \/ SinkOpen(r) \/ PipeChunk(r) \/ SinkWrite(r)
       \/ SinkFinish(r) \/ SinkError(r) \/ DocEnd(r) \/ SaveDone(r) \/ SaveFails(r)
SpecGen == InitGen /\ [][NextGen]_vars

(***************************************************************************)
(* C2: the success response, with the byte size read from the file, is     *)
(* and the recording of the generated file, are produced only after the    *)
(* write stream the document is piped into has finished flushing: no       *)
(* request is answered 200, and no file is recorded, while its sink is     *)
(* still unflushed.                                                        *)
(***************************************************************************)
C2_RespondAfterFlush ==
  \A r \in Reqs :
    (\/ reqResp[r].status = 200
     \/ reqPc[r] = "done" /\ \E i \in 1..Len(dbFiles) : dbFiles[i].filename = reqFile[r])
      => sink[r].state = "finished"

(***************************************************************************)
(* C3: when the write to storage fails, the request gets exactly one       *)
(* response and it is an error response: never a success response, and     *)
(* never no response at all once the request is over.                      *)
(***************************************************************************)
C3_SinkFailurePropagated ==
  \A r \in Reqs :
    sink[r].state = "errored" =>
      /\ reqResp[r].status # 200
      /\ reqPc[r] \in {"done", "dropped"} => reqResp[r].status = 500

(***************************************************************************)
(* C4: two generations of the same portfolio, one after the other or       *)
(* overlapping, have distinct filenames, so neither writes over the        *)
(* other's file.                                                           *)
(***************************************************************************)
C4_DistinctFilenames ==
  \A r1, r2 \in Reqs :
    (r1 # r2 /\ reqFile[r1] # NoFile /\ reqFile[r2] # NoFile /\ reqId[r1] = reqId[r2])
      => reqFile[r1] # reqFile[r2]

(***************************************************************************)
(* server.js: the in-memory stores, their JSON files and the initial data  *)
(* load.  app.listen's callback starts loadInitialData once the server is  *)
(* listening, so requests are handled while the load awaits.  A handler    *)
(* runs from one await to the next in one step.  An id stands for the      *)
(* uuid of a record; a client names only ids it has been given (in a 201   *)
(* response, or during an earlier run of the server) or an id no record    *)
(* has.                                                                    *)
(***************************************************************************)
MaxCreates == 2

ArtistIds == 1..MaxCreates
PortfolioIds == 1..MaxCreates
EarlierArtistId == 0
EarlierPortfolioId == 0
UnknownId == 0 - 1

Artist(id, name, email) == [id |-> id, name |-> name, email |-> email]
Portfolio(id, artistId) == [id |-> id, artistId |-> artistId]
EarlierArtist == Artist(EarlierArtistId, "Old A.", "old@x.com")
EarlierPortfolio == Portfolio(EarlierPortfolioId, EarlierArtistId)

\* the request bodies
NameInputs == {Undefined, "", "Ama K."}
EmailInputs == {Undefined, "", "ama@x.com"}

\* server.js:401: !name || !email
MissingRequiredNameOnly(name, email) == ~Truthy(name)
MissingRequired(name, email) == ~Truthy(name) \/ ~Truthy(email)

\* artists.find(a => a.id === id)
Find(store, id) == {i \in 1..Len(store) : store[i].id = id}

\* the data files an earlier run of the server can have left
EarlierFiles ==
  { [artists |-> <<>>, portfolios |-> <<>>],
    [artists |-> << <<EarlierArtist>> >>, portfolios |-> <<>>],
    [artists |-> << <<EarlierArtist>> >>, portfolios |-> << <<EarlierPortfolio>> >>] }

InitStore ==
  /\ HexIdle /\ PdfIdle /\ HtmlIdle /\ GenIdle /\ ViewIdle
  /\ artists = <<>> /\ portfolios = <<>>
  /\ \E files \in EarlierFiles :
       /\ artistsFile = files.artists
       /\ portfoliosFile = files.portfolios
       /\ htmlFiles = IF files.portfolios = <<>> THEN {} ELSE {EarlierPortfolioId}
  /\ loadPc = "checkArtists" /\ loadBuf = <<>>
  /\ pendingA = {} /\ pendingP = {}
  /\ nextArtist = 1 /\ nextPortfolio = 1
  /\ answeredA = [id \in ArtistIds |-> 0]
  /\ answeredP = [id \in PortfolioIds |-> 0]
  /\ lastResp = <<>>

NotStore == <<hexVars, pdfVars, htmlVars, genVars, viewVars>>

\* records created so far, of either kind
Created == (nextArtist - 1) + (nextPortfolio - 1)

\* server.js:602-604: await fs.pathExists('data/artists.json')
LoadCheckArtists ==
  /\ loadPc = "checkArtists"
  /\ loadPc' = IF artistsFile # <<>> THEN "readArtists" ELSE "checkPortfolios"
  /\ UNCHANGED <<artists, portfolios, artistsFile, portfoliosFile, htmlFiles, loadBuf,
                 pendingA, pendingP, nextArtist, nextPortfolio, answeredA, answeredP,
                 lastResp, NotStore>>

\* server.js:603: fs.readJson reads the file
LoadReadArtists ==
  /\ loadPc = "readArtists"
  /\ loadBuf' = artistsFile
  /\ loadPc' = "assignArtists"
  /\ UNCHANGED <<artists, portfolios, artistsFile, portfoliosFile, htmlFiles,
                 pendingA, pendingP, nextArtist, nextPortfolio, answeredA, answeredP,
                 lastResp, NotStore>>

\* server.js:603: artists = await ...
LoadAssignArtists ==
  /\ loadPc = "assignArtists"
  /\ artists' = loadBuf[1]
  /\ loadBuf' = <<>>
  /\ loadPc' = "checkPortfolios"
  /\ UNCHANGED <<portfolios, artistsFile, portfoliosFile, htmlFiles,
                 pendingA, pendingP, nextArtist, nextPortfolio, answeredA, answeredP,
                 lastResp, NotStore>>

\* server.js:605-607: await fs.pathExists('data/portfolios.json')
LoadCheckPortfolios ==
  /\ loadPc = "checkPortfolios"
  /\ loadPc' = IF portfoliosFile # <<>> THEN "readPortfolios" ELSE "loaded"
  /\ UNCHANGED <<artists, portfolios, artistsFile, portfoliosFile, htmlFiles, loadBuf,
                 pendingA, pendingP, nextArtist, nextPortfolio, answeredA, answeredP,
                 lastResp, NotStore>>

\* server.js:606: fs.readJson reads the file
LoadReadPortfolios ==
  /\ loadPc = "readPortfolios"
  /\ loadBuf' = portfoliosFile
  /\ loadPc' = "assignPortfolios"
  /\ UNCHANGED <<artists, portfolios, artistsFile, portfoliosFile, htmlFiles,
                 pendingA, pendingP, nextArtist, nextPortfolio, answeredA, answeredP,
                 lastResp, NotStore>>

\* server.js:606: portfolios = await ...
LoadAssignPortfolios ==
  /\ loadPc = "assignPortfolios"
  /\ portfolios' = loadBuf[1]
  /\ loadBuf' = <<>>
  /\ loadPc' = "loaded"
  /\ UNCHANGED <<artists, artistsFile, portfoliosFile, htmlFiles,
                 pendingA, pendingP, nextArtist, nextPortfolio, answeredA, answeredP,
                 lastResp, NotStore>>

\* server.js:608-610: a read fails; the catch logs and the load is over
LoadFails ==
  /\ loadPc \in {"readArtists", "readPortfolios"}
  /\ loadPc' = "loaded"
  /\ UNCHANGED <<artists, portfolios, artistsFile, portfoliosFile, htmlFiles, loadBuf,
                 pendingA, pendingP, nextArtist, nextPortfolio, answeredA, answeredP,
                 lastResp, NotStore>>

\* server.js:387-403: POST /api/artists without a name or an email
RejectArtist(name, email) ==
  /\ loadPc # "idle"
  /\ MissingRequired(name, email)
  /\ lastResp' = <<[route |-> "POST /api/artists", id |-> UnknownId, status |-> 400]>>
  /\ UNCHANGED <<artists, portfolios, artistsFile, portfoliosFile, htmlFiles, loadPc, loadBuf,
                 pendingA, pendingP, nextArtist, nextPortfolio, answeredA, answeredP,
                 NotStore>>

\* server.js:387-428: POST /api/artists up to await fs.writeJson: the
\* record is pushed, and writeJson serializes the array as it is now
CreateArtist(name, email) ==
  /\ loadPc # "idle"
  /\ ~MissingRequired(name, email)
  /\ Created < MaxCreates
  /\ artists' = Append(artists, Artist(nextArtist, name, email))
  /\ pendingA' = pendingA \cup {[id |-> nextArtist, data |-> artists']}
  /\ nextArtist' = nextArtist + 1
  /\ UNCHANGED <<portfolios, artistsFile, portfoliosFile, htmlFiles, loadPc, loadBuf,
                 pendingP, nextPortfolio, answeredA, answeredP, lastResp, NotStore>>

\* server.js:428-433: writeJson has written the file; 201
ArtistWriteDone(id) ==
  \E w \in pendingA :
  /\ w.id = id
  /\ artistsFile' = <<w.data>>
  /\ answeredA' = [answeredA EXCEPT ![w.id] = 201]
  /\ pendingA' = pendingA \ {w}
  /\ UNCHANGED <<artists, portfolios, portfoliosFile, htmlFiles, loadPc, loadBuf,
                 pendingP, nextArtist, nextPortfolio, answeredP, lastResp, NotStore>>

\* server.js:434-437: writeJson rejects; 500
ArtistWriteFails(id) ==
  \E w \in pendingA :
  /\ w.id = id
  /\ answeredA' = [answeredA EXCEPT ![w.id] = 500]
  /\ pendingA' = pendingA \ {w}
  /\ UNCHANGED <<artists, portfolios, artistsFile, portfoliosFile, htmlFiles, loadPc, loadBuf,
                 pendingP, nextArtist, nextPortfolio, answeredP, lastResp, NotStore>>

\* server.js:446-452: GET /api/artists/:id
GetArtist(id) ==
  /\ loadPc # "idle"
  /\ lastResp' = <<[route |-> "GET /api/artists/:id", id |-> id,
                    status |-> IF Find(artists, id) # {} THEN 200 ELSE 404]>>
  /\ UNCHANGED <<artists, portfolios, artistsFile, portfoliosFile, htmlFiles, loadPc, loadBuf,
                 pendingA, pendingP, nextArtist, nextPortfolio, answeredA, answeredP,
                 NotStore>>

\* the artist ids a client can name
KnownArtistIds ==
  {id \in ArtistIds : answeredA[id] = 201}
  \cup (IF artistsFile # <<>> \/ Find(artists, EarlierArtistId) # {}
        THEN {EarlierArtistId} ELSE {})
  \cup {UnknownId}

\* server.js:455-469: POST /api/portfolios for an artistId no stored artist has
RejectPortfolio(artistId) ==
  /\ loadPc # "idle"
  /\ artistId \in KnownArtistIds
  /\ Find(artists, artistId) = {}
  /\ lastResp' = <<[route |-> "POST /api/portfolios", id |-> artistId, status |-> 404]>>
  /\ UNCHANGED <<artists, portfolios, artistsFile, portfoliosFile, htmlFiles, loadPc, loadBuf,
                 pendingA, pendingP, nextArtist, nextPortfolio, answeredA, answeredP,
                 NotStore>>

\* server.js:455-486: POST /api/portfolios up to await fs.writeJson
CreatePortfolio(artistId) ==
  /\ loadPc # "idle"
  /\ artistId \in KnownArtistIds
  /\ Find(artists, artistId) # {}
  /\ Created < MaxCreates
  /\ portfolios' = Append(portfolios, Portfolio(nextPortfolio, artistId))
  /\ pendingP' = pendingP \cup {[id |-> nextPortfolio, await |-> "json", data |-> portfolios']}
  /\ nextPortfolio' = nextPortfolio + 1
  /\ UNCHANGED <<artists, artistsFile, portfoliosFile, htmlFiles, loadPc, loadBuf,
                 pendingA, nextArtist, answeredA, answeredP, lastResp, NotStore>>

\* server.js:486-500: portfolios.json is written; the HTML is generated and
\* fs.writeFile awaited
PortfolioJsonDone(id) ==
  \E w \in pendingP :
  /\ w.id = id /\ w.await = "json"
  /\ portfoliosFile' = <<w.data>>
  /\ pendingP' = (pendingP \ {w}) \cup {[w EXCEPT !.await = "html"]}
  /\ UNCHANGED <<artists, portfolios, artistsFile, htmlFiles, loadPc, loadBuf,
                 pendingA, nextArtist, nextPortfolio, answeredA, answeredP, lastResp,
                 NotStore>>

\* server.js:500-507: the HTML file is written; 201
PortfolioHtmlDone(id) ==
  \E w \in pendingP :
  /\ w.id = id /\ w.await = "html"
  /\ htmlFiles' = htmlFiles \cup {w.id}
  /\ answeredP' = [answeredP EXCEPT ![w.id] = 201]
  /\ pendingP' = pendingP \ {w}
  /\ UNCHANGED <<artists, portfolios, artistsFile, portfoliosFile, loadPc, loadBuf,
                 pendingA, nextArtist, nextPortfolio, answeredA, lastResp, NotStore>>

\* server.js:508-511: writeJson or writeFile rejects; 500
PortfolioWriteFails(id) ==
  \E w \in pendingP :
  /\ w.id = id
  /\ answeredP' = [answeredP EXCEPT ![w.id] = 500]
  /\ pendingP' = pendingP \ {w}
  /\ UNCHANGED <<artists, portfolios, artistsFile, portfoliosFile, htmlFiles, loadPc, loadBuf,
                 pendingA, nextArtist, nextPortfolio, answeredA, lastResp, NotStore>>

NextStore ==
  \/ LoadCheckArtists \/ LoadReadArtists \/ LoadAssignArtists
  \/ LoadCheckPortfolios \/ LoadReadPortfolios \/ LoadAssignPortfolios \/ LoadFails
  \/ \E name \in NameInputs, email \in EmailInputs :
       RejectArtist(name, email) \/ CreateArtist(name, email)
  \/ \E id \in ArtistIds : ArtistWriteDone(id) \/ ArtistWriteFails(id)
  \/ \E id \in ArtistIds \cup {EarlierArtistId} : GetArtist(id)
  \/ \E artistId \in ArtistIds \cup {EarlierArtistId, UnknownId} :
       RejectPortfolio(artistId) \/ CreatePortfolio(artistId)
  \/ \E id \in PortfolioIds :
       PortfolioJsonDone(id) \/ PortfolioHtmlDone(id) \/ PortfolioWriteFails(id)
SpecStore == InitStore /\ [][NextStore]_vars

(***************************************************************************)
(* SpecViews: GET /api/artists/:id of part_000:281-300, for NumFetches     *)
(* requests running at once.  The handler awaits Artist.findById, then in  *)
(* one turn tests the result, adds 1 to the views of the document it holds *)
(* and calls save, and answers after the save has resolved.  Mongoose's    *)
(* save of a loaded document sends the modified path as an assignment      *)
(* ($set views to the document's value); the schema (part_000:47-92) sets  *)
(* no optimisticConcurrency, so the update carries no version test.        *)
(***************************************************************************)
NumFetches == 3
Fetches == 1..NumFetches

ViewedArtistId == "artist"
UnknownArtistId == "unknown"

\* the result of findById: <<views of the document>>, or <<>> for null
NoDocument == <<>>
Hydrate(v) == <<v>>
IdleFetch == [pc |-> "idle", id |-> UnknownArtistId, doc |-> NoDocument, status |-> 0]

InitViews ==
  /\ HexIdle /\ PdfIdle /\ HtmlIdle /\ GenIdle /\ StoreIdle
  /\ views = 0
  /\ fetch = [r \in Fetches |-> IdleFetch]

NotViews == <<hexVars, pdfVars, htmlVars, genVars, storeVars>>

\* part_000:282-286: the request arrives and the query is sent
ReceiveFetch(r) ==
  /\ fetch[r].pc = "idle"
  /\ \E id \in {ViewedArtistId, UnknownArtistId} :
       fetch' = [fetch EXCEPT ![r].pc = "finding", ![r].id = id]
  /\ UNCHANGED <<views, NotViews>>

\* part_000:284-286: the database answers the query with the document as
\* it is stored now
FindById(r) ==
  /\ fetch[r].pc = "finding"
  /\ fetch' = [fetch EXCEPT ![r].pc = "found",
                            ![r].doc = IF fetch[r].id = ViewedArtistId
                                       THEN Hydrate(views) ELSE NoDocument]
  /\ UNCHANGED <<views, NotViews>>

\* part_000:297-299: the query rejects
FindByIdFails(r) ==
  /\ fetch[r].pc = "finding"
  /\ fetch' = [fetch EXCEPT ![r].pc = "done", ![r].status = 500]
  /\ UNCHANGED <<views, NotViews>>

\* part_000:288-290
ArtistNotFound(r) ==
  /\ fetch[r].pc = "found" /\ fetch[r].doc = NoDocument
  /\ fetch' = [fetch EXCEPT ![r].pc = "done", ![r].status = 404]
  /\ UNCHANGED <<views, NotViews>>

\* part_000:292-294: artist.views += 1 on the loaded document, and save is
\* called
IncrementViews(r) ==
  /\ fetch[r].pc = "found" /\ fetch[r].doc # NoDocument
  /\ fetch' = [fetch EXCEPT ![r].pc = "saving", ![r].doc = Hydrate(@[1] + 1)]
  /\ UNCHANGED <<views, NotViews>>

\* part_000:294: the database applies the update of the save
ArtistSaved(r) ==
  /\ fetch[r].pc = "saving"
  /\ views' = fetch[r].doc[1]
  /\ fetch' = [fetch EXCEPT ![r].pc = "saved"]
  /\ UNCHANGED NotViews

\* part_000:296: res.json({ artist })
RespondArtist(r) ==
  /\ fetch[r].pc = "saved"
  /\ fetch' = [fetch EXCEPT ![r].pc = "done", ![r].status = 200]
  /\ UNCHANGED <<views, NotViews>>

\* part_000:297-299: the save rejects, nothing is stored
ArtistSaveFails(r) ==
  /\ fetch[r].pc = "saving"
  /\ fetch' = [fetch EXCEPT ![r].pc = "done", ![r].status = 500]
  /\ UNCHANGED <<views, NotViews>>

NextViews ==
  \E r \in Fetches :
    \/ ReceiveFetch(r)
    \/ FindById(r)
    \/ FindByIdFails(r)
    \/ ArtistNotFound(r)
    \/ IncrementViews(r)
    \/ ArtistSaved(r)
    \/ RespondArtist(r)
    \/ ArtistSaveFails(r)

SpecViews == InitViews /\ [][NextViews]_vars

(***************************************************************************)
(* SpecHex: hexToRgb on every string over HexAlphabet up to MaxHexLen      *)
(***************************************************************************)
MaxHexLen == 7
HexAlphabet == {"#", "b", "F", "2", "g"}

TypeHexChar ==
  /\ hexOut = <<>>
  /\ Len(hexIn) < MaxHexLen
  /\ \E c \in HexAlphabet : hexIn' = Append(hexIn, c)
  /\ UNCHANGED <<hexOut, pdfVars, htmlVars, genVars, storeVars, viewVars>>

CallHexToRgb ==
  /\ hexOut = <<>>
  /\ hexOut' = <<hexToRgb(hexIn)>>
  /\ UNCHANGED <<hexIn, pdfVars, htmlVars, genVars, storeVars, viewVars>>

InitHex == HexIdle /\ PdfIdle /\ HtmlIdle /\ GenIdle /\ StoreIdle /\ ViewIdle
NextHex == TypeHexChar \/ CallHexToRgb
SpecHex == InitHex /\ [][NextHex]_vars

(***************************************************************************)
(* SpecPdf: the page drawing on every portfolio of the bounded input sets  *)
(***************************************************************************)
MaxSections == 2
MaxGenres == 3

SeqsUpTo(S, n) == UNION {[1..k -> S] : k \in 0..n}

\* sum of glyph advances of a genre string, in 1/1000 em: at 10 pt the chip
\* is 40, 260 or 490 points wide, at 18 pt (the first chip) 56, 452 or 866
GenreAdvances == {2000, 24000, 47000}

SectionChoices ==
  { [type |-> <<"g","a","l","l","e","r","y">>, title |-> UndefinedS,
     content |-> "", order |-> 2],
    [type |-> <<"b","i","o">>, title |-> <<"M","y"," ","A","r","t">>,
     content |-> "Paintings since 2019", order |-> 1],
    [type |-> <<"p","r","e","s","s">>, title |-> <<>>,
     content |-> Undefined, order |-> 1] }

ContactChoices ==
  { [location |-> [city |-> Undefined, country |-> Undefined],
     socialLinks |->
       [defined |-> TRUE,
        entries |-> << [platform |-> <<"i","n","s","t","a","g","r","a","m">>, url |-> Undefined],
                       [platform |-> <<"w","e","b","s","i","t","e">>, url |-> Undefined] >>]],
    [location |-> [city |-> "Nairobi", country |-> Undefined],
     socialLinks |->
       [defined |-> TRUE,
        entries |-> << [platform |-> <<"i","n","s","t","a","g","r","a","m">>,
                        url |-> "https://instagram.com/ama"],
                       [platform |-> <<"w","e","b","s","i","t","e">>, url |-> Undefined] >>]] }

\* portfolio.artist.location and portfolio.artist.socialLinks: every
\* combination of city and country, no socialLinks object, and every
\* choice of populated URLs among three platforms
SocialPlatforms ==
  << <<"i","n","s","t","a","g","r","a","m">>, <<"y","o","u","t","u","b","e">>,
     <<"w","e","b","s","i","t","e">> >>
ContactInputs ==
  { [location |-> [city |-> city, country |-> country], socialLinks |-> links] :
      city \in {Undefined, "Nairobi"}, country \in {Undefined, "", "Kenya"},
      links \in
        {[defined |-> FALSE, entries |-> <<>>]}
        \cup { [defined |-> TRUE,
                entries |-> [k \in 1..Len(SocialPlatforms) |->
                               [platform |-> SocialPlatforms[k],
                                url |-> IF k \in on THEN "https://example.com/ama"
                                        ELSE IF k = 1 THEN "" ELSE Undefined]]] :
               on \in SUBSET (1..Len(SocialPlatforms)) } }

\* portfolio.customizations: no colors object, a full one, and ones that
\* supply only one of primary and accent
PdfCustomizationInputs ==
  { [hasColors |-> FALSE, colors |-> DefaultPdfColors],
    [hasColors |-> TRUE, colors |-> DefaultPdfColors],
    [hasColors |-> TRUE,
     colors |-> [primary |-> <<"#","1","1","2","2","3","3">>, accent |-> UndefinedS]],
    [hasColors |-> TRUE,
     colors |-> [primary |-> UndefinedS, accent |-> <<"#","4","4","5","5","6","6">>]] }

PortfolioRecord(secs, genres, bio, contact, customizations) ==
  [title |-> "Ama K. Portfolio",
   description |-> Undefined,
   sections |-> secs,
   customizations |-> customizations,
   artist |-> [name |-> "Ama K.", email |-> "ama@x.com", bio |-> bio,
               category |-> <<"v","i","s","u","a","l","_","a","r","t","i","s","t">>,
               experience |-> <<"a","d","v","a","n","c","e","d">>,
               genres |-> genres, location |-> contact.location,
               socialLinks |-> contact.socialLinks]]

PortfolioInputs ==
  { PortfolioRecord(secs, genres, bio, contact,
                    [hasColors |-> TRUE, colors |-> DefaultPdfColors]) :
      secs \in SeqsUpTo(SectionChoices, MaxSections),
      genres \in SeqsUpTo(GenreAdvances, MaxGenres),
      bio \in {"", "Painter and muralist"},
      contact \in ContactChoices }
  \cup
  { PortfolioRecord(<<>>, <<>>, "", contact, customizations) :
      contact \in ContactChoices, customizations \in PdfCustomizationInputs }
  \cup
  { PortfolioRecord(<<>>, <<>>, "", contact,
                    [hasColors |-> TRUE, colors |-> DefaultPdfColors]) :
      contact \in ContactInputs }

\* part_000:368-450: new PDFDocument, the cover page and the about page
DrawCoverAndAbout ==
  /\ pdfPc = "cover"
  /\ LET p == pdfIn[1]
         cover == CoverPage(NewDocument, p, PrimaryRgb(p), AccentRgb(p))
     IN pdfDoc' = <<AboutPage(cover, p, AccentRgb(p))>>
  /\ pdfPc' = "sections"
  /\ pdfI' = 1
  /\ UNCHANGED <<pdfIn, hexVars, htmlVars, genVars, storeVars, viewVars>>

\* part_000:453-471: one iteration of portfolio.sections.forEach
DrawSection ==
  /\ pdfPc = "sections"
  /\ pdfI <= Len(pdfIn[1].sections)
  /\ pdfDoc' = <<SectionPage(pdfDoc[1], pdfIn[1].sections[pdfI], AccentRgb(pdfIn[1]))>>
  /\ pdfI' = pdfI + 1
  /\ UNCHANGED <<pdfIn, pdfPc, hexVars, htmlVars, genVars, storeVars, viewVars>>

\* part_000:473-504: the skills page, after the last section
DrawSkills ==
  /\ pdfPc = "sections"
  /\ pdfI > Len(pdfIn[1].sections)
  /\ pdfDoc' = <<SkillsPage(pdfDoc[1], pdfIn[1], PrimaryRgb(pdfIn[1]), AccentRgb(pdfIn[1]))>>
  /\ pdfPc' = "contact"
  /\ UNCHANGED <<pdfIn, pdfI, hexVars, htmlVars, genVars, storeVars, viewVars>>

\* part_000:506-572: the contact page, the footer and doc.end()
DrawContact ==
  /\ pdfPc = "contact"
  /\ pdfDoc' = <<ContactPage(pdfDoc[1], pdfIn[1], PrimaryRgb(pdfIn[1]), AccentRgb(pdfIn[1]))>>
  /\ pdfPc' = "ended"
  /\ UNCHANGED <<pdfIn, pdfI, hexVars, htmlVars, genVars, storeVars, viewVars>>

InitPdf ==
  /\ HexIdle /\ HtmlIdle /\ GenIdle /\ StoreIdle /\ ViewIdle
  /\ pdfDoc = <<>> /\ pdfPc = "cover" /\ pdfI = 0
  /\ \E p \in PortfolioInputs : pdfIn = <<p>>
NextPdf == DrawCoverAndAbout \/ DrawSection \/ DrawSkills \/ DrawContact
SpecPdf == InitPdf /\ [][NextPdf]_vars

(***************************************************************************)
(* SpecHtml: generatePortfolioHTML on bounded content records, with each   *)
(* template identifier and customization object                            *)
(***************************************************************************)
MaxSkills == 2
MaxSkillChars == 3

Platforms == {"instagram", "youtube", "tiktok", "facebook", "twitter", "website"}
OptionalFields == {"jobs", "services", "testimonials", "phone"}

NoSocialLinks == [defined |-> FALSE, links |-> [pf \in Platforms |-> Undefined]]

SkillsArray(items) == [kind |-> "array", items |-> items, chars |-> <<>>]
SkillsString(chars) == [kind |-> "string", items |-> <<>>, chars |-> chars]
SkillsUndefined == [kind |-> "undefined", items |-> <<>>, chars |-> <<>>]

Vocals == <<"v","o","c","a","l","s">>
Guitar == <<"g","u","i","t","a","r">>

SkillsInputs ==
  {SkillsUndefined, SkillsArray(<<Vocals, Guitar>>)}
  \cup {SkillsArray(items) : items \in SeqsUpTo({<<"a">>, <<"b"," ","c">>}, MaxSkills)}
  \cup {SkillsString(chars) : chars \in SeqsUpTo({"a", ",", " "}, MaxSkillChars)}

\* a content record; what is not given is absent
ContentRecord(fields, social, skills, aboutMe, socialLinks) ==
  [name |-> "Ama K.", email |-> "ama@x.com",
   title |-> Undefined, experience |-> Undefined, location |-> Undefined,
   aboutMe |-> aboutMe,
   jobs |-> fields.jobs, services |-> fields.services,
   testimonials |-> fields.testimonials, phone |-> fields.phone,
   instagram |-> social.instagram, youtube |-> social.youtube, tiktok |-> social.tiktok,
   facebook |-> social.facebook, twitter |-> social.twitter, website |-> social.website,
   socialLinks |-> socialLinks, skills |-> skills]

NoFields == [f \in OptionalFields |-> Undefined]
NoSocial == [pf \in Platforms |-> Undefined]
UrlOf == [pf \in Platforms |-> "https://example.com/ama"]

\* the record of the end-to-end scenario: the Instagram URL is held under socialLinks
ScenarioRecord ==
  ContentRecord(NoFields, NoSocial, SkillsArray(<<Vocals, Guitar>>), "",
                [defined |-> TRUE,
                 links |-> [pf \in Platforms |->
                              IF pf = "instagram" THEN "https://instagram.com/ama"
                              ELSE Undefined]])

ContentInputs ==
  { ContentRecord(fields, social, SkillsArray(<<Vocals, Guitar>>), "I sing.", NoSocialLinks) :
      fields \in [OptionalFields -> {Undefined, "", "text"}],
      social \in {NoSocial, UrlOf} }
  \cup
  { ContentRecord(NoFields, [pf \in Platforms |-> IF pf \in on THEN UrlOf[pf] ELSE Undefined],
                  SkillsArray(<<Vocals, Guitar>>), "I sing.", NoSocialLinks) :
      on \in SUBSET Platforms }
  \cup
  { ContentRecord(NoFields, NoSocial, skills, "I sing.", NoSocialLinks) :
      skills \in SkillsInputs }
  \cup
  { [ContentRecord(NoFields, NoSocial, SkillsArray(<<Vocals, Guitar>>), aboutMe, NoSocialLinks)
       EXCEPT !.title = title, !.experience = experience, !.location = location] :
      aboutMe \in {Undefined, "I sing."}, title \in {Undefined, "Singer"},
      experience \in {Undefined, "advanced"}, location \in {Undefined, "Accra"} }
  \cup {ScenarioRecord}

TemplateInputs == {"modern", "classic", "artistic", "minimal", Undefined}

CustomizationInputs ==
  { [hasColors |-> FALSE, colors |-> DefaultHtmlColors],
    [hasColors |-> TRUE,
     colors |-> [primary |-> "#112233", accent |-> "#445566", background |-> "#000000"]],
    [hasColors |-> TRUE,
     colors |-> [primary |-> "#112233", accent |-> Undefined, background |-> Undefined]] }

RenderHtml ==
  /\ htmlIn # <<>>
  /\ htmlOut = <<>>
  /\ htmlOut' = <<generatePortfolioHTML(htmlIn[1].data, htmlIn[1].template,
                                        htmlIn[1].customizations)>>
  /\ UNCHANGED <<htmlIn, hexVars, pdfVars, genVars, storeVars, viewVars>>

InitHtml ==
  /\ HexIdle /\ PdfIdle /\ GenIdle /\ StoreIdle /\ ViewIdle
  /\ htmlOut = <<>>
  /\ \E data \in ContentInputs, template \in TemplateInputs,
        customizations \in CustomizationInputs :
       htmlIn = <<[data |-> data, template |-> template,
                   customizations |-> customizations]>>
NextHtml == RenderHtml
SpecHtml == InitHtml /\ [][NextHtml]_vars

\* reading the rendered document
Rendered == htmlOut # <<>>
HtmlDoc == htmlOut[1]
Count(seq, Test(_)) == Len(SelectSeq(seq, Test))
HasHeading(doc, heading) ==
  \E i \in 1..Len(doc) : doc[i].el = "h2" /\ doc[i].txt = heading
IsChip(t) == t.el = "span.skill"
ChipsOf(doc) == LET chips == SelectSeq(doc, IsChip) IN [i \in 1..Len(chips) |-> chips[i].chars]
LinksWithIcon(doc, icon) ==
  Cardinality({i \in 1..Len(doc) : doc[i].el = "a" /\ doc[i].icon = icon})
HasPhoneLine(doc) ==
  \E i \in 1..Len(doc) : doc[i].el = "p" /\ doc[i].parts[1] = "Phone:"

(***************************************************************************)
(* C7: in each of the modern, classic and artistic templates, the section  *)
(* of each optional field jobs, services, testimonials and phone is in the *)
(* document if and only if the field is a non-empty value.                 *)
(***************************************************************************)
\* the heading under which a template shows a field
SectionHeading(template, field) ==
  CASE field = "jobs" ->
         IF template = "artistic" THEN "Performance History" ELSE "Experience"
    [] field = "services" -> "Services"
    [] field = "testimonials" ->
         IF template = "artistic" THEN "Voices of Appreciation" ELSE "Testimonials"

HasFieldSection(doc, template, field) ==
  IF field = "phone" THEN HasPhoneLine(doc)
  ELSE HasHeading(doc, SectionHeading(template, field))

C7_ConditionalSections ==
  Rendered =>
    \A field \in OptionalFields :
      Truthy(htmlIn[1].data[field]) <=> HasFieldSection(HtmlDoc, htmlIn[1].template, field)

(***************************************************************************)
(* C8: for every skill list (a sequence, or a comma-separated string split *)
(* on commas and trimmed, or the empty or absent list) the skills block of *)
(* each template holds exactly one chip per skill, in input order, and no  *)
(* other chip: no skill, no chip.                                          *)
(***************************************************************************)
SkillsGiven(skills) ==
  CASE skills.kind = "array" -> skills.items
    [] skills.kind = "string" /\ skills.chars # <<>> ->
         LET pieces == Split(skills.chars, ",")
         IN [i \in 1..Len(pieces) |-> Trim(pieces[i])]
    [] OTHER -> <<>>

C8_OneChipPerSkill ==
  Rendered => ChipsOf(HtmlDoc) = SkillsGiven(htmlIn[1].data.skills)

(***************************************************************************)
(* C9: in each of the three templates the contact block holds exactly one  *)
(* link-icon for every platform among instagram, youtube, tiktok,          *)
(* facebook, twitter and website whose URL is populated, and none for an   *)
(* unpopulated platform.                                                   *)
(***************************************************************************)
IconOf(platform) ==
  IF platform = "website" THEN "fas fa-globe"
  ELSE CASE platform = "instagram" -> "fab fa-instagram"
         [] platform = "youtube" -> "fab fa-youtube"
         [] platform = "tiktok" -> "fab fa-tiktok"
         [] platform = "facebook" -> "fab fa-facebook"
         [] platform = "twitter" -> "fab fa-twitter"

C9_OneLinkPerPlatform ==
  Rendered =>
    \A pf \in Platforms :
      LinksWithIcon(HtmlDoc, IconOf(pf)) = IF Truthy(htmlIn[1].data[pf]) THEN 1 ELSE 0

(***************************************************************************)
(* C10: the record {name, email, aboutMe empty, skills [vocals, guitar],   *)
(* socialLinks {instagram: URL}} rendered with template modern contains an *)
(* Instagram icon link, exactly the two chips vocals then guitar, no       *)
(* Experience heading, no Services heading, and an About Me heading whose  *)
(* body is empty.                                                          *)
(***************************************************************************)
C10_Scenario ==
  (Rendered /\ htmlIn[1].data = ScenarioRecord /\ htmlIn[1].template = "modern") =>
    /\ LinksWithIcon(HtmlDoc, "fab fa-instagram") = 1
    /\ ChipsOf(HtmlDoc) = <<Vocals, Guitar>>
    /\ ~HasHeading(HtmlDoc, "Experience")
    /\ ~HasHeading(HtmlDoc, "Services")
    /\ \E i \in 1..Len(HtmlDoc) - 1 :
         /\ HtmlDoc[i].el = "h2" /\ HtmlDoc[i].txt = "About Me"
         /\ HtmlDoc[i + 1].el = "div.section-content" /\ HtmlDoc[i + 1].txt = ""

(***************************************************************************)
(* C11: the template selector renders modern, classic and artistic with    *)
(* their own strategy and every other identifier, the absent one included, *)
(* with the modern strategy; a document is returned in every case.  The    *)
(* strategy is read off the document by its contact heading.               *)
(***************************************************************************)
RecognizedTemplates == {"modern", "classic", "artistic"}
ContactHeading(strategy) ==
  CASE strategy = "modern" -> "Connect With Me"
    [] strategy = "classic" -> "Contact"
    [] strategy = "artistic" -> "Let's Create Together"
StrategiesOf(doc) == {st \in RecognizedTemplates : HasHeading(doc, ContactHeading(st))}

C11_TemplateSelector ==
  Rendered =>
    StrategiesOf(HtmlDoc) =
      {IF htmlIn[1].template \in RecognizedTemplates THEN htmlIn[1].template ELSE "modern"}
C11_Witness ==
  /\ Rendered
  /\ htmlIn[1].template = Undefined
  /\ StrategiesOf(HtmlDoc) = {"modern"}

(***************************************************************************)
(* C12: the theme of the rendered HTML is fully populated: each of         *)
(* primary, accent and background is the value the customization's colors  *)
(* object supplies, or its default (#B026FF, #FFD23F, #0a0a12) when the    *)
(* customization does not supply it; no component is undefined.            *)
(***************************************************************************)
ThemeComponents == {"primary", "accent", "background"}
SuppliedColor(customizations, k) ==
  IF customizations.hasColors THEN customizations.colors[k] ELSE Undefined
CssVariable(doc, k) ==
  LET name == CASE k = "primary" -> "--primary" [] k = "accent" -> "--accent"
                [] k = "background" -> "--background"
  IN doc[CHOOSE i \in 1..Len(doc) : doc[i].el = name].txt

C12_ThemeFullyPopulated ==
  Rendered =>
    \A k \in ThemeComponents :
      CssVariable(HtmlDoc, k) =
        IF SuppliedColor(htmlIn[1].customizations, k) # Undefined
        THEN SuppliedColor(htmlIn[1].customizations, k)
        ELSE DefaultHtmlColors[k]

(***************************************************************************)
(* C13: for every content record that has name and email, whatever other   *)
(* fields are absent or empty, and for every template identifier and       *)
(* customization, generatePortfolioHTML returns a document in which a      *)
(* missing field shows only by the absence of its section: the text        *)
(* "undefined" stands nowhere in the content of the document.              *)
(***************************************************************************)
ThemeTokens == {"--primary", "--accent", "--background", "header.style", "img.border"}
IsPlaceholder(tok) ==
  /\ tok.el \notin ThemeTokens
  /\ \/ "txt" \in DOMAIN tok /\ tok.txt = "undefined"
     \/ "href" \in DOMAIN tok /\ tok.href = "undefined"
     \/ "parts" \in DOMAIN tok /\ \E j \in 1..Len(tok.parts) : tok.parts[j] = "undefined"
Placeholders(doc) == {i \in 1..Len(doc) : IsPlaceholder(doc[i])}

C13_NoPlaceholderForMissingField ==
  Rendered => Placeholders(HtmlDoc) = {}

(***************************************************************************)
(* C1: the drawing emits exactly 1 (cover) + (1 if the bio is non-empty)   *)
(* + N (sections) + (1 if the genres list is non-empty) + 1 (contact)      *)
(* pages, counting the initial page and every addPage call of the handler. *)
(***************************************************************************)
ExpectedPages(portfolio) ==
  1 + (IF portfolio.artist.bio # "" THEN 1 ELSE 0)
    + Len(portfolio.sections)
    + (IF portfolio.artist.genres # <<>> THEN 1 ELSE 0)
    + 1

C1_PageCount ==
  pdfPc = "ended" =>
    /\ Len(pdfDoc[1].pages) = ExpectedPages(pdfIn[1])
    /\ 1 + pdfDoc[1].addPageCalls = ExpectedPages(pdfIn[1])

C1_Witness ==
  /\ pdfPc = "ended"
  /\ pdfIn[1].artist.bio = ""
  /\ Len(pdfIn[1].sections) = 2
  /\ pdfIn[1].artist.genres = <<>>
  /\ Len(pdfDoc[1].pages) = 4

(***************************************************************************)
(* C5: skills-page chip layout.  Chips are placed in input order from the  *)
(* left margin (x=50, y=120); a chip is as wide as its measured text plus  *)
(* 20 (measured at the font size in effect: 18 for the first chip, 10 for  *)
(* the rest); the next chip starts 10 after the previous chip's right      *)
(* edge; a chip whose right edge would pass page width - 50 goes to the    *)
(* left margin of a new row 35 lower; each chip is one rectangle on one    *)
(* row, and rows and positions within a row follow input order.            *)
(***************************************************************************)
SkillsPageIndex(portfolio) ==
  1 + (IF portfolio.artist.bio # "" THEN 1 ELSE 0) + Len(portfolio.sections) + 1

IsRect(o) == o.op = "rect"
IsText(o) == o.op = "text"

\* what follows the header band (one rectangle, one label) on a page
BelowHeader(page) == SubSeq(page, 3, Len(page))

ChipRects(doc, portfolio) ==
  SelectSeq(BelowHeader(doc.pages[SkillsPageIndex(portfolio)]), IsRect)
ChipTexts(doc, portfolio) ==
  SelectSeq(BelowHeader(doc.pages[SkillsPageIndex(portfolio)]), IsText)

RightMargin == PageWidth - 5000

C5_ChipLayout ==
  (pdfPc = "ended" /\ pdfIn[1].artist.genres # <<>>) =>
    LET genres == pdfIn[1].artist.genres
        chips == ChipRects(pdfDoc[1], pdfIn[1])
        labels == ChipTexts(pdfDoc[1], pdfIn[1])
        measured(i) == IF i = 1 THEN (genres[i] * 18) \div 10 ELSE genres[i]
    IN /\ Len(chips) = Len(genres)
       /\ Len(labels) = Len(genres)
       /\ Len(pdfDoc[1].pages[SkillsPageIndex(pdfIn[1])]) = 2 + 2 * Len(genres)
       /\ \A i \in 1..Len(genres) :
            /\ chips[i].w = measured(i) + 2000
            /\ chips[i].h = 2500
            /\ labels[i].str = genres[i]
            /\ labels[i].x = chips[i].x + 1000
            /\ labels[i].y = chips[i].y + 800
            /\ LET startX == IF i = 1 THEN 5000 ELSE chips[i-1].x + chips[i-1].w + 1000
                   startY == IF i = 1 THEN 12000 ELSE chips[i-1].y
               IN IF startX + chips[i].w > RightMargin
                  THEN chips[i].x = 5000 /\ chips[i].y = startY + 3500
                  ELSE chips[i].x = startX /\ chips[i].y = startY
       /\ \A i, j \in 1..Len(genres) :
            i < j => \/ chips[i].y < chips[j].y
                     \/ chips[i].y = chips[j].y /\ chips[i].x < chips[j].x

C5_Witness ==
  /\ pdfPc = "ended"
  /\ Len(pdfIn[1].artist.genres) = 3
  /\ LET chips == ChipRects(pdfDoc[1], pdfIn[1])
     IN /\ Len(chips) = 3
        /\ chips[1].x = 5000 /\ chips[1].y = 12000
        /\ chips[2].x > 5000 /\ chips[2].y = 12000
        /\ chips[3].x = 5000 /\ chips[3].y = 15500

(***************************************************************************)
(* C6: hexToRgb is total; a well-formed six-digit string (optional '#',    *)
(* any letter case) gives the value of each pair of hex digits, within     *)
(* 0..255, and every other string gives the fallback {176,38,255}; e.g.    *)
(* #B026FF gives {176,38,255}.                                             *)
(***************************************************************************)
HexValueTable ==
  [c \in {"0","1","2","3","4","5","6","7","8","9",
          "a","b","c","d","e","f","A","B","C","D","E","F"} |->
     CASE c = "0" -> 0 [] c = "1" -> 1 [] c = "2" -> 2 [] c = "3" -> 3
       [] c = "4" -> 4 [] c = "5" -> 5 [] c = "6" -> 6 [] c = "7" -> 7
       [] c = "8" -> 8 [] c = "9" -> 9
       [] c \in {"a","A"} -> 10 [] c \in {"b","B"} -> 11
       [] c \in {"c","C"} -> 12 [] c \in {"d","D"} -> 13
       [] c \in {"e","E"} -> 14 [] c \in {"f","F"} -> 15]

HexDigitsOf(s) == IF Len(s) = 7 THEN Tail(s) ELSE s

WellFormedHex(s) ==
  /\ Len(s) \in {6, 7}
  /\ Len(s) = 7 => s[1] = "#"
  /\ \A i \in 1..6 : HexDigitsOf(s)[i] \in DOMAIN HexValueTable

PairValue(s, k) ==
  16 * HexValueTable[HexDigitsOf(s)[2 * k - 1]] + HexValueTable[HexDigitsOf(s)[2 * k]]

C6_Example == hexToRgb(<<"#","B","0","2","6","F","F">>) = [r |-> 176, g |-> 38, b |-> 255]

C6_HexToRgbTotal ==
  /\ C6_Example
  /\ hexOut # <<>> =>
       /\ DOMAIN hexOut[1] = {"r", "g", "b"}
       /\ \A k \in {"r", "g", "b"} : hexOut[1][k] \in 0..255
       /\ IF WellFormedHex(hexIn)
          THEN /\ hexOut[1].r = PairValue(hexIn, 1)
               /\ hexOut[1].g = PairValue(hexIn, 2)
               /\ hexOut[1].b = PairValue(hexIn, 3)
          ELSE hexOut[1] = FallbackRgb

C6_Witness ==
  /\ hexOut # <<>>
  /\ WellFormedHex(hexIn)
  /\ hexIn[1] = "#"
  /\ \E i \in 2..7 : hexIn[i] = "F"
  /\ \E i \in 2..7 : hexIn[i] = "b"
  /\ hexOut[1] # FallbackRgb

(***************************************************************************)
(* C14: the section pages follow the about page (or the cover), one page   *)
(* per section in the order of the sections array, whatever the sections'  *)
(* order fields say: the i-th section page starts with the header band and *)
(* the label of the i-th section, its title or, without a title, its type, *)
(* in upper case; a section without content has a page with the header     *)
(* alone.                                                                  *)
(***************************************************************************)
SectionPageIndex(portfolio, i) ==
  1 + (IF portfolio.artist.bio # "" THEN 1 ELSE 0) + i
SectionLabel(section) ==
  ToUpperCase(IF section.title \in {UndefinedS, <<>>} THEN section.type ELSE section.title)
SectionsDrawn == pdfPc \in {"contact", "ended"}

C14_SectionPagesInArrayOrder ==
  SectionsDrawn =>
    /\ Len(pdfDoc[1].pages) =
         ExpectedPages(pdfIn[1]) - (IF pdfPc = "ended" THEN 0 ELSE 1)
    /\ \A i \in 1..Len(pdfIn[1].sections) :
         LET section == pdfIn[1].sections[i]
             page == pdfDoc[1].pages[SectionPageIndex(pdfIn[1], i)]
         IN /\ Len(page) >= 2
            /\ IsRect(page[1]) /\ page[1].y = Pt(50) /\ page[1].h = Pt(40)
            /\ IsText(page[2]) /\ page[2].str = SectionLabel(section)
            /\ section.content \in {Undefined, ""} => Len(page) = 2
            /\ section.content \notin {Undefined, ""} =>
                 Len(page) = 3 /\ IsText(page[3]) /\ page[3].str = section.content

\* two sections whose order fields run against the array order, the first
\* without title and without content
C14_Witness ==
  /\ pdfPc = "ended"
  /\ Len(pdfIn[1].sections) = 2
  /\ pdfIn[1].sections[1].order > pdfIn[1].sections[2].order
  /\ pdfIn[1].sections[1].content = ""
  /\ pdfDoc[1].pages[SectionPageIndex(pdfIn[1], 1)][2].str = <<"G","A","L","L","E","R","Y">>
  /\ pdfDoc[1].pages[SectionPageIndex(pdfIn[1], 2)][2].str = <<"M","Y"," ","A","R","T">>

(***************************************************************************)
(* C15: on the contact page the email block is drawn at y=120; the         *)
(* location block is drawn if and only if city or country is populated, as *)
(* the populated parts joined by ', '; one line 'Platform: URL' is drawn   *)
(* for each platform with a populated URL and none for the others; and     *)
(* contactY only increases: by 50 after the email block, 50 after a drawn  *)
(* location block, 25 after the social heading and 20 after each social    *)
(* line, so that no two text lines of the page share a y.                  *)
(***************************************************************************)
\* the text lines of the contact page between the header label and the footer
ContactLines(doc) ==
  LET texts == SelectSeq(doc.pages[Len(doc.pages)], IsText)
  IN SubSeq(texts, 2, Len(texts) - 1)
Populated(v) == v # Undefined /\ v # ""
HasLocation(artist) == Populated(artist.location.city) \/ Populated(artist.location.country)
ExpectedLocation(location) ==
  IF Populated(location.city) /\ Populated(location.country)
  THEN <<location.city, ", ", location.country>>
  ELSE IF Populated(location.city) THEN <<location.city>> ELSE <<location.country>>
HasUrl(entry) == Populated(entry.url)
PopulatedLinks(artist) ==
  IF artist.socialLinks.defined THEN SelectSeq(artist.socialLinks.entries, HasUrl) ELSE <<>>
ExpectedSocialLine(entry) ==
  <<UpperChar(Head(entry.platform))>> \o Tail(entry.platform) \o <<":", " ", entry.url>>

C15_ContactPage ==
  pdfPc = "ended" =>
    LET artist == pdfIn[1].artist
        lines == ContactLines(pdfDoc[1])
        loc == IF HasLocation(artist) THEN 2 ELSE 0
        links == PopulatedLinks(artist)
        socialY == IF HasLocation(artist) THEN Pt(220) ELSE Pt(170)
        heading == IF artist.socialLinks.defined THEN 1 ELSE 0
    IN /\ Len(lines) = 2 + loc + heading + Len(links)
       /\ lines[1].y = Pt(120) /\ lines[2].y = Pt(140) /\ lines[2].str = artist.email
       /\ HasLocation(artist) =>
            /\ lines[3].y = Pt(170) /\ lines[4].y = Pt(190)
            /\ lines[4].str = ExpectedLocation(artist.location)
       /\ artist.socialLinks.defined => lines[2 + loc + 1].y = socialY
       /\ \A k \in 1..Len(links) :
            /\ lines[2 + loc + 1 + k].y = socialY + Pt(25) + (k - 1) * Pt(20)
            /\ lines[2 + loc + 1 + k].str = ExpectedSocialLine(links[k])
       /\ \A i, j \in 1..Len(lines) : i < j => lines[i].y < lines[j].y

\* a page with a location block and two social lines
C15_Witness ==
  /\ pdfPc = "ended"
  /\ HasLocation(pdfIn[1].artist)
  /\ pdfIn[1].artist.location.city = Undefined
  /\ Len(PopulatedLinks(pdfIn[1].artist)) = 2
  /\ Len(ContactLines(pdfDoc[1])) = 7
  /\ ContactLines(pdfDoc[1])[7].y = Pt(265)

(***************************************************************************)
(* C16: overlapping generations of one portfolio both go through.  Each    *)
(* request answered with success has exactly one entry of its own in the   *)
(* stored generatedFiles, carrying the filename and the URL of its         *)
(* response; and once every request has been answered with success, every  *)
(* file written, the most recent one included, has an entry.               *)
(***************************************************************************)
EntriesOf(r) == {i \in 1..Len(dbFiles) : dbFiles[i].id = r}
AllSucceeded == \A r \in Reqs : reqResp[r].status = 200

C16_BothRecorded ==
  /\ \A r \in Reqs :
       reqResp[r].status = 200 =>
         /\ Cardinality(EntriesOf(r)) = 1
         /\ \A i \in EntriesOf(r) :
              /\ dbFiles[i].filename = reqResp[r].filename
              /\ dbFiles[i].url = reqResp[r].downloadUrl
  /\ AllSucceeded =>
       \A f \in FileNames :
         disk[f] # Absent => \E i \in 1..Len(dbFiles) : dbFiles[i].filename = f

\* request 2 computed its filename before request 1 did, and saved its
\* entry after request 1 did: the two overlapped, and both succeeded
C16_Witness ==
  /\ reqResp[1].status = 200 /\ reqResp[2].status = 200
  /\ reqFile[2][3] < reqFile[1][3]
  /\ Len(dbFiles) >= 2 /\ dbFiles[1].id = 1 /\ dbFiles[2].id = 2

(***************************************************************************)
(* C17: every artist in the in-memory store has a non-empty name and a     *)
(* non-empty email, in every state; and a POST /api/artists answered 400   *)
(* leaves the artists array and data/artists.json as they were.            *)
(***************************************************************************)
NamedArtists ==
  \A i \in 1..Len(artists) :
    /\ artists[i].name # Undefined /\ artists[i].name # ""
    /\ artists[i].email # Undefined /\ artists[i].email # ""
Answers(route, status) ==
  /\ lastResp' # lastResp
  /\ lastResp'[1].route = route /\ lastResp'[1].status = status

C17_ArtistsHaveNameAndEmail ==
  /\ []NamedArtists
  /\ [][Answers("POST /api/artists", 400) =>
          (artists' = artists /\ artistsFile' = artistsFile)]_vars

\* a request was rejected while a created artist is stored and persisted
C17_Witness ==
  /\ lastResp # <<>>
  /\ lastResp[1].route = "POST /api/artists" /\ lastResp[1].status = 400
  /\ Len(artists) = 1 /\ artists[1].id = 1
  /\ artistsFile = <<artists>>

(***************************************************************************)
(* C18: a POST /api/portfolios answered 404 appends nothing to portfolios  *)
(* and writes no HTML file, and in every state every stored portfolio's    *)
(* artistId is the id of an artist in the artists store.                   *)
(***************************************************************************)
ReferentialIntegrity ==
  \A i \in 1..Len(portfolios) : Find(artists, portfolios[i].artistId) # {}

C18_PortfoliosReferToArtists ==
  /\ []ReferentialIntegrity
  /\ [][Answers("POST /api/portfolios", 404) =>
          (portfolios' = portfolios /\ htmlFiles' = htmlFiles)]_vars

(***************************************************************************)
(* C19: an artist whose creation was answered 201 is in the artists store  *)
(* in every later state, so that GET /api/artists/:id returns it, however  *)
(* the requests interleave with the initial data load.                     *)
(***************************************************************************)
C19_CreatedArtistStaysRetrievable ==
  \A id \in ArtistIds : answeredA[id] = 201 => Find(artists, id) # {}

(***************************************************************************)
(* C20: a create request answered 500 leaves the stores as they were       *)
(* before it: the record of a POST /api/artists or POST /api/portfolios    *)
(* answered 500 is not in artists or portfolios.                           *)
(***************************************************************************)
C20_FailedCreateLeavesNoRecord ==
  /\ \A id \in ArtistIds : answeredA[id] = 500 => Find(artists, id) = {}
  /\ \A id \in PortfolioIds : answeredP[id] = 500 => Find(portfolios, id) = {}

(***************************************************************************)
(* C22: every chip rectangle of the skills page lies within the horizontal *)
(* content area, 50 <= x and x + width <= page width - 50, and two chips   *)
(* on the same row are at least 10 apart.                                  *)
(***************************************************************************)
ChipInContentArea(chip) ==
  Pt(50) <= chip.x /\ chip.x + chip.w <= PageWidth - Pt(50)

ChipsApart(a, b) ==
  a.y = b.y => (a.x + a.w + Pt(10) <= b.x \/ b.x + b.w + Pt(10) <= a.x)

C22_ChipsWithinContentArea ==
  (pdfPc = "ended" /\ pdfIn[1].artist.genres # <<>>) =>
    LET chips == ChipRects(pdfDoc[1], pdfIn[1])
    IN /\ \A i \in 1..Len(chips) : ChipInContentArea(chips[i])
       /\ \A i, j \in 1..Len(chips) : i # j => ChipsApart(chips[i], chips[j])

(***************************************************************************)
(* C21: the view counter counts every successful fetch: once no request is *)
(* in flight, the stored views value has grown (from 0) by exactly the     *)
(* number of GET /api/artists/:id requests answered 200, however their     *)
(* load, increment and save steps interleaved.                             *)
(***************************************************************************)
SuccessfulFetches == {r \in Fetches : fetch[r].status = 200}
Quiescent == \A r \in Fetches : fetch[r].pc \in {"idle", "done"}

C21_EveryFetchCounted ==
  Quiescent => views = Cardinality(SuccessfulFetches)

====
